---------------------------- MODULE Spec2Model ----------------------------
(***************************************************************************)
(* A model of jsgf2fst/fstaccept.py: the path enumerator fstprintall, the  *)
(* symbol decoder symbols2intent, the recognizer fstaccept and the batch   *)
(* loop of main.                                                           *)
(*                                                                         *)
(* A Python str is a sequence of one-character strings, so startswith,     *)
(* slicing, split and join are computed and not assumed.  Python's None is *)
(* the one-element sequence None, which is no str.                         *)
(***************************************************************************)
EXTENDS Integers, Sequences, FiniteSets, TLC

VARIABLES
    symbols,        \* symbols2intent: the symbols read so far from its argument
    intent_name,    \* symbols2intent: the intent_name argument as passed
    s2i,            \* symbols2intent: its locals tag, tag_symbols, out_symbols, intent, intent_name
    replace_tags,   \* symbols2intent: the replace_tags argument
    dpc,            \* symbols2intent: "loop", "returned", "raised", or "off"
    dresult,        \* symbols2intent: the record returned (None before the return)
    in_fst,         \* fstprintall: the automaton
    exclude_meta,   \* fstprintall: the exclude_meta argument
    stack,          \* fstprintall: the frames of the recursion, the running call last
    path,           \* fstprintall: the path list all the frames share
    epc,            \* fstprintall: "run", "returned", "raised", or "off"
    eresult,        \* fstprintall: the list the outermost call returned
    args,           \* main: the parsed arguments sentences, intent_name, replace_tags
    idx,            \* main: the position of the for loop in args.sentences
    results,        \* main: the results dict, sentence -> list of records
    mpc,            \* main and fstaccept: where control is, or "off"
    out_fst,        \* fstaccept: the composed automaton
    out_sentences,  \* fstaccept: the list fstprintall returned
    pos,            \* fstaccept: the position of the for loop in out_sentences
    intents,        \* fstaccept: the list it returns
    logged,         \* the sentences logging.exception has reported
    elements,       \* linear_fst: the elements argument
    el_i,           \* linear_fst: the loop variable i, <<k>> once bound to k, <<>> while unbound
    written,        \* linear_fst: the lines written to the compiler
    compiled,       \* linear_fst: the automaton compiler.compile() gave
    lpc             \* linear_fst: "for", "final", "compile", "returned", "raised", or "off"

decodeVars == <<symbols, intent_name, s2i, replace_tags, dpc, dresult>>
enumVars == <<in_fst, exclude_meta, stack, path, epc, eresult>>
mainVars == <<args, idx, results, mpc, out_fst, out_sentences, pos, intents, logged>>
linearVars == <<elements, el_i, written, compiled, lpc>>
vars == <<decodeVars, enumVars, mainVars, linearVars>>

None == <<"<None>">>

\* bool(x) of a str or None
Truthy(x) == x # None /\ x # <<>>

----------------------------------------------------------------------------
(* str operations *)

StartsWith(s, p) == Len(s) >= Len(p) /\ SubSeq(s, 1, Len(p)) = p

\* s[n:]
Slice(s, n) == SubSeq(s, n + 1, Len(s))

\* c in s
Contains(s, c) == \E i \in 1..Len(s) : s[i] = c

FirstIndex(s, c) == CHOOSE i \in 1..Len(s) : s[i] = c /\ \A j \in 1..(i - 1) : s[j] # c

\* s.split(c, maxsplit=1) of a str that contains c
SplitOnce(s, c) ==
    LET i == FirstIndex(s, c)
    IN  <<SubSeq(s, 1, i - 1), SubSeq(s, i + 1, Len(s))>>

RECURSIVE Join(_)
\* " ".join(strs)
Join(strs) ==
    IF strs = <<>> THEN <<>>
    ELSE IF Len(strs) = 1 THEN strs[1]
    ELSE strs[1] \o <<" ">> \o Join(Tail(strs))

----------------------------------------------------------------------------
(* the str literals of the source and the symbols of the model's symbol table *)

U2 == <<"_", "_">>
BEGIN_PREFIX == U2 \o <<"b", "e", "g", "i", "n">> \o U2
END_PREFIX == U2 \o <<"e", "n", "d">> \o U2
LABEL_PREFIX == U2 \o <<"l", "a", "b", "e", "l">> \o U2
EPS_STR == <<"<", "e", "p", "s", ">">>
COLON == ":"

CityBoston == <<"c", "i", "t", "y", ":", "B", "o", "s", "t", "o", "n">>
Room == <<"r", "o", "o", "m">>
LightOn == <<"o", "n">>
LightOff == <<"o", "f", "f">>

Boston == <<"b", "o", "s", "t", "o", "n">>
Dunder == U2 \o <<"x">>

----------------------------------------------------------------------------
(* symbols2intent *)

empty_intent ==
    [text |-> <<>>, intent |-> [name |-> <<>>, confidence |-> 0], entities |-> <<>>]

\* the locals of symbols2intent before its loop
S2iEntry(name) ==
    [tag |-> None, tag_symbols |-> <<>>, out_symbols |-> <<>>,
     intent |-> empty_intent, intent_name |-> name, raised |-> FALSE]

\* a slip: the replacement is applied whatever replace_tags says
EndTagEntityAlwaysReplace(d, rt) ==
    IF Contains(d.tag, COLON)
    THEN [entity |-> SplitOnce(d.tag, COLON)[1], value |-> SplitOnce(d.tag, COLON)[2]]
    ELSE [entity |-> d.tag, value |-> Join(d.tag_symbols)]

\* the entity an __end__ marker appends
EndTagEntity(d, rt) ==
    IF rt /\ Contains(d.tag, COLON)
    THEN [entity |-> SplitOnce(d.tag, COLON)[1], value |-> SplitOnce(d.tag, COLON)[2]]
    ELSE [entity |-> d.tag, value |-> Join(d.tag_symbols)]

\* a slip: the assertion only asks for some tag to be open
TagMatchesAnyOpen(d, sym) == d.tag # None

\* assert tag == sym[7:]
TagMatches(d, sym) == d.tag = Slice(sym, 7)

\* a slip: every __label__ marker overwrites the name
AdoptLabelAlways(d, sym) == [d EXCEPT !.intent_name = Slice(sym, 9)]

\* if intent_name is None: intent_name = sym[9:]
AdoptLabel(d, sym) ==
    IF d.intent_name = None THEN [d EXCEPT !.intent_name = Slice(sym, 9)] ELSE d

\* a slip: the tag buffer is not emptied
BeginTagKeepBuffer(d, sym) == [d EXCEPT !.tag = Slice(sym, 9)]

\* tag = sym[9:]; tag_symbols = []
BeginTag(d, sym) == [d EXCEPT !.tag = Slice(sym, 9), !.tag_symbols = <<>>]

\* one iteration of the loop over symbols
LoopBody(d, sym, rt) ==
    IF sym = EPS_STR THEN d
    ELSE IF StartsWith(sym, BEGIN_PREFIX)
    THEN BeginTag(d, sym)
    ELSE IF StartsWith(sym, END_PREFIX)
    THEN IF ~TagMatches(d, sym)
         THEN [d EXCEPT !.raised = TRUE]
         ELSE [d EXCEPT !.intent.entities = Append(@, EndTagEntity(d, rt)),
                        !.tag = None]
    ELSE IF StartsWith(sym, LABEL_PREFIX)
    THEN AdoptLabel(d, sym)
    ELSE IF Truthy(d.tag)
    THEN [d EXCEPT !.tag_symbols = Append(@, sym), !.out_symbols = Append(@, sym)]
    ELSE [d EXCEPT !.out_symbols = Append(@, sym)]

\* the statements after the loop: the record returned
Finalize(d) ==
    LET named == IF Len(d.out_symbols) > 0
                 THEN [d.intent EXCEPT
                         !.intent.name = IF Truthy(d.intent_name) THEN d.intent_name ELSE <<>>,
                         !.intent.confidence = 1]
                 ELSE d.intent
    IN  [text |-> Join(d.out_symbols), tokens |-> d.out_symbols,
         intent |-> named.intent, entities |-> named.entities]

RECURSIVE RunLoop(_, _, _)
RunLoop(d, syms, rt) ==
    IF syms = <<>> \/ d.raised THEN d
    ELSE RunLoop(LoopBody(d, Head(syms), rt), Tail(syms), rt)

Raised == <<"<raised>">>

\* symbols2intent(syms, intent_name=name, replace_tags=rt): the record, or Raised
symbols2intent(syms, name, rt) ==
    LET d == RunLoop(S2iEntry(name), syms, rt)
    IN  IF d.raised THEN Raised ELSE Finalize(d)

----------------------------------------------------------------------------
(* symbols2intent run symbol by symbol on every bounded symbol sequence *)

MaxSymbols == 4

BeginCity == BEGIN_PREFIX \o CityBoston
EndCity == END_PREFIX \o CityBoston
BeginRoom == BEGIN_PREFIX \o Room
EndRoom == END_PREFIX \o Room
BeginEmpty == BEGIN_PREFIX
EndEmpty == END_PREFIX
LabelOn == LABEL_PREFIX \o LightOn
LabelOff == LABEL_PREFIX \o LightOff

Literals == {Boston, Dunder}
Symbols ==
    {EPS_STR, BeginCity, EndCity, BeginRoom, EndRoom, BeginEmpty, EndEmpty,
     LabelOn, LabelOff} \cup Literals

Grammar == <<"g", "r", "a", "m", "m", "a", "r">>
\* the intent_name argument: absent, the empty str, or a name
IntentNames == {None, <<>>, Grammar}

LinearOff ==
    elements = <<>> /\ el_i = <<>> /\ written = <<>> /\ compiled = None /\ lpc = "off"

MainOff ==
    /\ args = None /\ idx = 0 /\ results = <<>> /\ mpc = "off" /\ out_fst = None
    /\ out_sentences = <<>> /\ pos = 0 /\ intents = <<>> /\ logged = <<>>

EnumOff ==
    /\ in_fst = None /\ exclude_meta = FALSE /\ stack = <<>> /\ path = <<>>
    /\ epc = "off" /\ eresult = <<>>

DecodeInit ==
    /\ EnumOff /\ MainOff /\ LinearOff
    /\ symbols = <<>>
    /\ intent_name \in IntentNames
    /\ s2i = S2iEntry(intent_name)
    /\ replace_tags \in BOOLEAN
    /\ dpc = "loop"
    /\ dresult = None

\* for sym in symbols: one iteration, which may raise AssertionError
ReadSymbol ==
    /\ dpc = "loop"
    /\ Len(symbols) < MaxSymbols
    /\ \E sym \in Symbols :
          /\ symbols' = Append(symbols, sym)
          /\ s2i' = LoopBody(s2i, sym, replace_tags)
          /\ dpc' = IF LoopBody(s2i, sym, replace_tags).raised THEN "raised" ELSE "loop"
    /\ UNCHANGED <<intent_name, replace_tags, dresult, enumVars, mainVars, linearVars>>

\* the symbols are exhausted: the statements after the loop, and the return
ReturnIntent ==
    /\ dpc = "loop"
    /\ dresult' = Finalize(s2i)
    /\ dpc' = "returned"
    /\ UNCHANGED <<symbols, intent_name, s2i, replace_tags, enumVars, mainVars, linearVars>>

DecodeNext == ReadSymbol \/ ReturnIntent

SpecDecode == DecodeInit /\ [][DecodeNext]_vars

----------------------------------------------------------------------------
(* the automaton: states 0..NStates-1, a start state, the arcs of each     *)
(* state in their native order, the states whose final weight is not Zero, *)
(* and the output symbol table                                             *)

NStates == 3
MaxArcs == 3
RecursionLimit == 5

States == 0..(NStates - 1)

\* output_symbols().find(label).decode(); label 0 is epsilon
SymTab == <<Boston, LabelOn, Dunder, EndRoom>>
Find(label) == IF label = 0 THEN EPS_STR ELSE SymTab[label]

RECURSIVE Reversed(_)
Reversed(q) == IF q = <<>> THEN <<>> ELSE Append(Reversed(Tail(q)), Head(q))

\* a slip: the arcs of a state are gone through last to first
ArcsLastFirst(fst, state) == Reversed(SelectSeq(fst.arclist, LAMBDA a : a.src = state))

\* in_fst.arcs(state)
Arcs(fst, state) == SelectSeq(fst.arclist, LAMBDA a : a.src = state)

\* in_fst.final(state) != zero_weight
IsFinal(fst, state) == fst.final[state]

SeqsUpTo(S, n) == UNION {[1..k -> S] : k \in 0..n}

\* every automaton of at most maxArcs arcs over the labels; the arcs are listed
\* state by state, which leaves the order of the arcs of each state free
Automata(labels, starts, maxArcs) ==
    {[start |-> s, arclist |-> al, final |-> f] :
        s \in starts,
        al \in {x \in SeqsUpTo([src : States, olabel : labels, nextstate : States], maxArcs) :
                   \A i \in 1..(Len(x) - 1) : x[i].src <= x[i + 1].src},
        f \in [States -> BOOLEAN]}

----------------------------------------------------------------------------
(* fstprintall *)

NoState == -1

\* state = state or in_fst.start()
EntryState(fst, state) == IF state = NoState \/ state = 0 THEN fst.start ELSE state

RECURSIVE Sentence(_, _, _)
\* the sentence built from the path at a final state (out_file is None)
Sentence(p, em, eps) ==
    IF p = <<>> THEN <<>>
    ELSE LET osym == Find(Head(p).olabel)
         IN  IF Head(p).olabel = eps THEN Sentence(Tail(p), em, eps)
             ELSE IF em /\ StartsWith(osym, U2) THEN Sentence(Tail(p), em, eps)
             ELSE <<osym>> \o Sentence(Tail(p), em, eps)

Frame(fst, state) == [state |-> EntryState(fst, state), i |-> 1, at |-> "for", sentences |-> <<>>]

Top == stack[Len(stack)]
TopArcs == Arcs(in_fst, Top.state)
SetTop(f) == [stack EXCEPT ![Len(stack)] = f]

\* for arc in in_fst.arcs(state): path.append(arc)
AppendArc ==
    /\ epc = "run" /\ Top.at = "for" /\ Top.i <= Len(TopArcs)
    /\ path' = Append(path, TopArcs[Top.i])
    /\ stack' = SetTop([Top EXCEPT !.at = "appended"])
    /\ UNCHANGED <<in_fst, exclude_meta, epc, eresult, decodeVars, mainVars, linearVars>>

\* the destination is final: the sentence of the path is appended to sentences
FinalState ==
    /\ epc = "run" /\ Top.at = "appended"
    /\ IsFinal(in_fst, TopArcs[Top.i].nextstate)
    /\ stack' = SetTop([Top EXCEPT !.at = "pop",
                                   !.sentences = Append(@, Sentence(path, exclude_meta, 0))])
    /\ UNCHANGED <<in_fst, exclude_meta, path, epc, eresult, decodeVars, mainVars, linearVars>>

\* the destination is not final: the recursive call, or RecursionError
NonFinalState ==
    /\ epc = "run" /\ Top.at = "appended"
    /\ ~IsFinal(in_fst, TopArcs[Top.i].nextstate)
    /\ IF Len(stack) >= RecursionLimit
       THEN epc' = "raised" /\ stack' = stack
       ELSE /\ epc' = epc
            /\ stack' = Append(SetTop([Top EXCEPT !.at = "call"]),
                               Frame(in_fst, TopArcs[Top.i].nextstate))
    /\ UNCHANGED <<in_fst, exclude_meta, path, eresult, decodeVars, mainVars, linearVars>>

\* the arcs are exhausted: return sentences, which the caller extends its own with
ReturnSentences ==
    /\ epc = "run" /\ Top.at = "for" /\ Top.i > Len(TopArcs)
    /\ IF Len(stack) = 1
       THEN epc' = "returned" /\ eresult' = Top.sentences /\ stack' = <<>>
       ELSE /\ epc' = epc /\ eresult' = eresult
            /\ stack' = [SubSeq(stack, 1, Len(stack) - 1) EXCEPT ![Len(stack) - 1] =
                            [@ EXCEPT !.at = "pop", !.sentences = @ \o Top.sentences]]
    /\ UNCHANGED <<in_fst, exclude_meta, path, decodeVars, mainVars, linearVars>>

\* path.pop(), and on to the next arc
PopArc ==
    /\ epc = "run" /\ Top.at = "pop"
    /\ path' = SubSeq(path, 1, Len(path) - 1)
    /\ stack' = SetTop([Top EXCEPT !.at = "for", !.i = @ + 1])
    /\ UNCHANGED <<in_fst, exclude_meta, epc, eresult, decodeVars, mainVars, linearVars>>

EnumLabels == 0..3
EnumStarts == {0, 1}

DecodeOff ==
    /\ symbols = <<>> /\ intent_name = None /\ s2i = None /\ replace_tags = FALSE /\ dpc = "off" /\ dresult = None

EnumInit ==
    /\ DecodeOff /\ MainOff /\ LinearOff
    /\ in_fst \in Automata(EnumLabels, EnumStarts, MaxArcs)
    /\ exclude_meta \in BOOLEAN
    /\ stack = <<Frame(in_fst, NoState)>>
    /\ path = <<>>
    /\ epc = "run"
    /\ eresult = <<>>

EnumNext == AppendArc \/ FinalState \/ NonFinalState \/ ReturnSentences \/ PopArc

SpecEnum == EnumInit /\ [][EnumNext]_vars

----------------------------------------------------------------------------
(* fstprintall as one call: the value the recursion of the actions above   *)
(* computes, for the callers that use it as a function                     *)

RECURSIVE PrintFrom(_, _, _, _, _, _)
\* the loop of the call on state from its i-th arc on, at recursion depth depth
PrintFrom(fst, em, state, p, i, depth) ==
    IF i > Len(Arcs(fst, state)) THEN [raised |-> FALSE, sentences |-> <<>>]
    ELSE LET arc == Arcs(fst, state)[i]
             p2 == Append(p, arc)
             here == IF IsFinal(fst, arc.nextstate)
                     THEN [raised |-> FALSE, sentences |-> <<Sentence(p2, em, 0)>>]
                     ELSE IF depth >= RecursionLimit
                     THEN [raised |-> TRUE, sentences |-> <<>>]
                     ELSE PrintFrom(fst, em, EntryState(fst, arc.nextstate), p2, 1, depth + 1)
         IN  IF here.raised THEN here
             ELSE LET rest == PrintFrom(fst, em, state, p, i + 1, depth)
                  IN  IF rest.raised THEN rest
                      ELSE [raised |-> FALSE, sentences |-> here.sentences \o rest.sentences]

\* fstprintall(fst, exclude_meta=em)
fstprintall(fst, em) == PrintFrom(fst, em, EntryState(fst, NoState), <<>>, 1, 1)

\* the actions and the function agree
EnumAgrees ==
    /\ epc = "returned" =>
          fstprintall(in_fst, exclude_meta) = [raised |-> FALSE, sentences |-> eresult]
    /\ epc = "raised" => fstprintall(in_fst, exclude_meta).raised

----------------------------------------------------------------------------
(* fstaccept and the loop of main *)

MaxBatch == 2
MaxOutArcs == 2

\* the automata apply_fst may return are over these labels, with at most
\* MaxOutArcs arcs; compose numbers its start state 0
OutLabels == {1, 2, 4}

\* a slip: except AssertionError, which lets the other exceptions through
CaughtOnlyAssertion(exc) == exc = "AssertionError"

\* except: with no exception class catches every exception
Caught(exc) == TRUE

\* where control goes when exc is raised inside the try block
Handler(exc) == IF Caught(exc) THEN "except" ELSE "escaped"

\* a slip: the confidence is left undivided
DividedByOne(intent, len) == [intent EXCEPT !.intent.confidence = <<@, 1>>]

\* intent["intent"]["confidence"] /= len(out_sentences): the quotient c / len
Divided(intent, len) == [intent EXCEPT !.intent.confidence = <<@, len>>]

\* a slip: a record without tokens is left out of the list
AppendedIfTokens(list, intent) == IF intent.tokens = <<>> THEN list ELSE Append(list, intent)

\* intents.append(intent)
Appended(list, intent) == Append(list, intent)

Sentence_(i) == args.sentences[i]

MainInit ==
    /\ DecodeOff /\ EnumOff /\ LinearOff
    /\ \E k \in 1..MaxBatch, name \in {None, Grammar}, rt \in BOOLEAN :
          args = [sentences |-> [i \in 1..k |-> i], intent_name |-> name, replace_tags |-> rt]
    /\ idx = 1
    /\ results = <<>>
    /\ mpc = "main"
    /\ out_fst = None /\ out_sentences = <<>> /\ pos = 0 /\ intents = <<>>
    /\ logged = <<>>

\* a slip: the list of the call before is carried on
CarriedIntents == intents

\* intents = []
NewIntents == <<>>

\* main: for sentence in args.sentences: fstaccept(...) is called; intents = []
CallFstaccept ==
    /\ mpc = "main" /\ idx <= Len(args.sentences)
    /\ intents' = NewIntents
    /\ mpc' = "apply_fst"
    /\ UNCHANGED <<args, idx, results, out_fst, out_sentences, pos, logged, decodeVars, enumVars, linearVars>>

\* out_fst = apply_fst(words, in_fst): the library composes, or raises
ApplyFst ==
    /\ mpc = "apply_fst"
    /\ \/ \E a \in Automata(OutLabels, {0}, MaxOutArcs) :
             out_fst' = a /\ mpc' = "fstprintall"
       \/ out_fst' = out_fst /\ mpc' = Handler("FstError")
    /\ UNCHANGED <<args, idx, results, out_sentences, pos, intents, logged, decodeVars, enumVars, linearVars>>

\* out_sentences = fstprintall(out_fst, exclude_meta=False), or RecursionError
FstPrintAll ==
    /\ mpc = "fstprintall"
    /\ IF fstprintall(out_fst, FALSE).raised
       THEN mpc' = Handler("RecursionError") /\ UNCHANGED <<out_sentences, pos>>
       ELSE /\ out_sentences' = fstprintall(out_fst, FALSE).sentences
            /\ pos' = 1
            /\ mpc' = "for"
    /\ UNCHANGED <<args, idx, results, out_fst, intents, logged, decodeVars, enumVars, linearVars>>

\* for out_sentence in out_sentences: decode, divide the confidence, append
DecodeSentence ==
    /\ mpc = "for" /\ pos <= Len(out_sentences)
    /\ IF RunLoop(S2iEntry(args.intent_name), out_sentences[pos], args.replace_tags).raised
       THEN mpc' = Handler("AssertionError") /\ UNCHANGED <<intents, pos>>
       ELSE /\ intents' = Appended(intents,
                   Divided(symbols2intent(out_sentences[pos], args.intent_name, args.replace_tags),
                           Len(out_sentences)))
            /\ pos' = pos + 1
            /\ mpc' = mpc
    /\ UNCHANGED <<args, idx, results, out_fst, out_sentences, logged, decodeVars, enumVars, linearVars>>

\* except: logging.exception(sentence)
Except ==
    /\ mpc = "except"
    /\ logged' = Append(logged, Sentence_(idx))
    /\ mpc' = "return"
    /\ UNCHANGED <<args, idx, results, out_fst, out_sentences, pos, intents, decodeVars, enumVars, linearVars>>

\* the try block ran to its end
EndTry ==
    /\ mpc = "for" /\ pos > Len(out_sentences)
    /\ mpc' = "return"
    /\ UNCHANGED <<args, idx, results, out_fst, out_sentences, pos, intents, logged, decodeVars, enumVars, linearVars>>

\* return intents; main: results[sentence] = the list returned
ReturnIntents ==
    /\ mpc = "return"
    /\ results' = [s \in DOMAIN results \cup {Sentence_(idx)} |->
                      IF s = Sentence_(idx) THEN intents ELSE results[s]]
    /\ idx' = idx + 1
    /\ out_fst' = None /\ out_sentences' = <<>> /\ pos' = 0
    /\ mpc' = "main"
    /\ UNCHANGED <<args, intents, logged, decodeVars, enumVars, linearVars>>

\* json.dump(results, sys.stdout)
Dump ==
    /\ mpc = "main" /\ idx > Len(args.sentences)
    /\ mpc' = "dumped"
    /\ UNCHANGED <<args, idx, results, out_fst, out_sentences, pos, intents, logged, decodeVars, enumVars, linearVars>>

Next ==
    \/ CallFstaccept \/ ApplyFst \/ FstPrintAll \/ DecodeSentence
    \/ Except \/ EndTry \/ ReturnIntents \/ Dump

Spec == MainInit /\ [][Next]_vars

----------------------------------------------------------------------------
(* linear_fst: the text it writes to the compiler, and the automaton the   *)
(* compiler reads from that text                                           *)

MaxTokens == 3

\* the tokens of a sentence: words, and the empty string that splitting an
\* empty sentence gives
Words == {<<>>, Boston, Room}

Digits == <<"0", "1", "2", "3", "4", "5", "6", "7", "8", "9">>

\* str(k) for a one-digit k
Str(k) == <<Digits[k + 1]>>

\* int(field) for a one-digit field
StrToInt(field) == CHOOSE k \in 0..9 : Str(k) = field

\* "{} {} {}".format(i, i + 1, el)
FormatArc(k, el) == Str(k) \o <<" ">> \o Str(k + 1) \o <<" ">> \o el

\* the columns of a line of the text format: split at blanks, empty columns dropped
RECURSIVE Columns(_, _)
Columns(line, cur) ==
    IF line = <<>> THEN (IF cur = <<>> THEN <<>> ELSE <<cur>>)
    ELSE IF Head(line) = " "
    THEN (IF cur = <<>> THEN <<>> ELSE <<cur>>) \o Columns(Tail(line), <<>>)
    ELSE Columns(Tail(line), Append(cur, Head(line)))

\* compiler.compile() on an acceptor: a line of three columns is an arc
\* source, destination, label; a line of one column is a final state, and so is
\* a line of two columns, the second being its weight
Compile(lines) ==
    LET cols == [k \in DOMAIN lines |-> Columns(lines[k], <<>>)]
        arcs == {[src |-> StrToInt(cols[k][1]), nextstate |-> StrToInt(cols[k][2]), label |-> cols[k][3]] :
                    k \in {j \in DOMAIN cols : Len(cols[j]) = 3}}
        final == {StrToInt(cols[k][1]) : k \in {j \in DOMAIN cols : Len(cols[j]) \in {1, 2}}}
    IN  [arcs |-> arcs, final |-> final,
         states |-> final \cup {a.src : a \in arcs} \cup {a.nextstate : a \in arcs}]

LinearInit ==
    /\ DecodeOff /\ EnumOff /\ MainOff
    /\ elements \in SeqsUpTo(Words, MaxTokens)
    /\ el_i = <<>>
    /\ written = <<>>
    /\ compiled = None
    /\ lpc = "for"

\* for i, el in enumerate(elements): print the arc line
WriteArc ==
    /\ lpc = "for" /\ Len(written) < Len(elements)
    /\ el_i' = <<Len(written)>>
    /\ written' = Append(written, FormatArc(Len(written), elements[Len(written) + 1]))
    /\ UNCHANGED <<elements, compiled, lpc, decodeVars, enumVars, mainVars>>

\* print(str(i + 1)): i is the last value of the loop, unbound if it never ran
WriteFinal ==
    /\ lpc = "for" /\ Len(written) = Len(elements)
    /\ IF el_i = <<>>
       THEN lpc' = "raised" /\ UNCHANGED written
       ELSE lpc' = "compile" /\ written' = Append(written, Str(el_i[1] + 1))
    /\ UNCHANGED <<elements, el_i, compiled, decodeVars, enumVars, mainVars>>

\* return compiler.compile()
CompileText ==
    /\ lpc = "compile"
    /\ compiled' = Compile(written)
    /\ lpc' = "returned"
    /\ UNCHANGED <<elements, el_i, written, decodeVars, enumVars, mainVars>>

LinearNext == WriteArc \/ WriteFinal \/ CompileText

SpecLinear == LinearInit /\ [][LinearNext]_vars

----------------------------------------------------------------------------
(* what the claims about symbols2intent speak of, read off the symbols     *)
(* themselves                                                              *)

IsBegin(sym) == StartsWith(sym, BEGIN_PREFIX)
IsEnd(sym) == StartsWith(sym, END_PREFIX)
IsLabel(sym) == StartsWith(sym, LABEL_PREFIX)
IsLiteral(sym) == sym # EPS_STR /\ ~IsBegin(sym) /\ ~IsEnd(sym) /\ ~IsLabel(sym)

LiteralsOf(syms) == SelectSeq(syms, IsLiteral)
EndsOf(syms) == SelectSeq(syms, IsEnd)
LabelsOf(syms) == SelectSeq(syms, IsLabel)

\* the name of a tag up to its first colon
BeforeColon(name) ==
    IF \E i \in 1..Len(name) : name[i] = ":"
    THEN SubSeq(name, 1, (CHOOSE i \in 1..Len(name) :
                             name[i] = ":" /\ \A j \in 1..(i - 1) : name[j] # ":") - 1)
    ELSE name

RECURSIVE OpenTag(_)
\* the tag the symbols leave open: the name of the last __begin__ marker that no
\* __end__ marker follows, or None
OpenTag(syms) ==
    IF syms = <<>> THEN None
    ELSE LET last == syms[Len(syms)]
         IN  IF IsBegin(last) THEN Slice(last, 9)
             ELSE IF IsEnd(last) THEN None
             ELSE OpenTag(SubSeq(syms, 1, Len(syms) - 1))

\* the entities of the running or returned call
Entities == IF dpc = "returned" THEN dresult.entities ELSE s2i.intent.entities

\* C5: every entity symbols2intent emits is named by the part before the first
\* colon of the tag name of the __end__ marker it comes from, with replace_tags
\* enabled and disabled alike.
C5_EntityIsNameBeforeColon ==
    dpc \in {"loop", "returned", "raised"} =>
        \A k \in DOMAIN Entities :
            Entities[k].entity = BeforeColon(Slice(EndsOf(symbols)[k], 7))

\* the positions b < e of a __begin__city:Boston and an __end__city:Boston with
\* literal tokens only between them
CitySpans ==
    {be \in (DOMAIN symbols) \X (DOMAIN symbols) :
        /\ be[1] < be[2]
        /\ symbols[be[1]] = BeginCity /\ symbols[be[2]] = EndCity
        /\ \A j \in (be[1] + 1)..(be[2] - 1) : symbols[j] \in Literals}

BostonValue == <<"B", "o", "s", "t", "o", "n">>

\* C6: the entity of a __begin__city:Boston, literal tokens, __end__city:Boston
\* span has the value Boston with replace_tags enabled, and the space-joined
\* literal tokens of the span with replace_tags disabled.
C6_ReplacementToggle ==
    dpc \in {"loop", "returned"} =>
        \A be \in CitySpans :
            LET k == Len(EndsOf(SubSeq(symbols, 1, be[2])))
            IN  /\ k \in DOMAIN Entities
                /\ Entities[k].value =
                      IF replace_tags THEN BostonValue
                      ELSE Join(SubSeq(symbols, be[1] + 1, be[2] - 1))

C6_Witness ==
    /\ dpc = "returned" /\ ~replace_tags
    /\ symbols = <<BeginCity, Boston, Dunder, EndCity>>
    /\ dresult.entities[1].value = Boston \o <<" ">> \o Dunder

\* the __end__ markers read, and those that name the tag open when they are read
EndPositions == {i \in DOMAIN symbols : IsEnd(symbols[i])}
Matched(i) == OpenTag(SubSeq(symbols, 1, i - 1)) = Slice(symbols[i], 7)

\* C8: the entities are, in order, those of the __end__ markers that name the tag
\* open when they are read; an __end__ marker that names another tag, or comes
\* with no tag open, raises at once and appends no entity.
C8_TagWellFormed ==
    dpc \in {"loop", "returned", "raised"} =>
        LET good == SelectSeq([i \in DOMAIN symbols |-> i],
                              LAMBDA i : i \in EndPositions /\ Matched(i))
        IN  /\ Len(Entities) = Len(good)
            /\ \A k \in DOMAIN Entities :
                  Entities[k].entity \in {Slice(symbols[good[k]], 7),
                                          BeforeColon(Slice(symbols[good[k]], 7))}
            /\ \A i \in EndPositions :
                  ~Matched(i) => dpc = "raised" /\ i = Len(symbols)
            /\ dpc = "raised" => Len(symbols) \in EndPositions /\ ~Matched(Len(symbols))

C8_Witness ==
    /\ dpc = "raised"
    /\ symbols = <<BeginRoom, Boston, EndRoom, EndRoom>>
    /\ Len(s2i.intent.entities) = 1

\* C10: with literal tokens read, intent.name is the intent_name passed if one was
\* passed, else the name of the first __label__ marker, else the empty str, and the
\* confidence is 1; with none read, the name is empty and the confidence 0.  The
\* __label__ markers change nothing else: text, tokens and entities are those of
\* the same symbols without them.
C10_IntentName ==
    dpc = "returned" =>
        LET lits == LiteralsOf(symbols)
            labels == LabelsOf(symbols)
            unlabelled == symbols2intent(SelectSeq(symbols, LAMBDA x : ~IsLabel(x)),
                                         intent_name, replace_tags)
        IN  /\ dresult.intent.name =
                  IF lits = <<>> THEN <<>>
                  ELSE IF intent_name # None THEN intent_name
                  ELSE IF labels # <<>> THEN Slice(labels[1], 9)
                  ELSE <<>>
            /\ dresult.intent.confidence = IF lits = <<>> THEN 0 ELSE 1
            /\ dresult.text = unlabelled.text
            /\ dresult.tokens = unlabelled.tokens
            /\ dresult.entities = unlabelled.entities
            /\ dresult.tokens = lits

C10_Witness ==
    /\ dpc = "returned" /\ intent_name = None
    /\ symbols = <<LabelOff, Boston, LabelOn>>
    /\ dresult.intent.name = LightOff

----------------------------------------------------------------------------
(* the accepting paths of an automaton, as sequences of positions in its   *)
(* arc list                                                                *)

ArcChains(fst) ==
    {p \in SeqsUpTo(DOMAIN fst.arclist, Len(fst.arclist)) :
        /\ p # <<>>
        /\ \A i \in 1..(Len(p) - 1) :
              fst.arclist[p[i]].nextstate = fst.arclist[p[i + 1]].src}

Acyclic(fst) ==
    \A p \in ArcChains(fst) : fst.arclist[p[Len(p)]].nextstate # fst.arclist[p[1]].src

\* the paths from the start state to a state whose final weight is not Zero
AcceptingPaths(fst) ==
    {p \in ArcChains(fst) :
        /\ fst.arclist[p[1]].src = fst.start
        /\ fst.final[fst.arclist[p[Len(p)]].nextstate]}

\* the output symbols along a path
Projection(fst, p, em) == Sentence([i \in DOMAIN p |-> fst.arclist[p[i]]], em, 0)

\* C3: on an automaton without cycles, the list fstprintall returns holds the
\* output symbols of every path from the start state to an accepting state, once
\* per path, and nothing else; paths through an accepting state included.
C3_EveryAcceptingPathOnce ==
    (epc = "returned" /\ Acyclic(in_fst)) =>
        \A s \in {Projection(in_fst, p, exclude_meta) : p \in AcceptingPaths(in_fst)}
                 \cup {eresult[i] : i \in DOMAIN eresult} :
            Cardinality({p \in AcceptingPaths(in_fst) :
                            Projection(in_fst, p, exclude_meta) = s})
              = Cardinality({i \in DOMAIN eresult : eresult[i] = s})

\* C7: the symbols of a path in literal-only mode, space-joined, are the text of
\* the record decoded from the symbols of the same path in all-symbols mode,
\* wherever the decoding returns a record.
C7_LiteralModeIsText ==
    (epc = "returned" /\ exclude_meta) =>
        LET full == fstprintall(in_fst, FALSE).sentences
        IN  \A i \in DOMAIN eresult :
                ~RunLoop(S2iEntry(None), full[i], TRUE).raised =>
                    Join(eresult[i]) = symbols2intent(full[i], None, TRUE).text

----------------------------------------------------------------------------
(* what the claims about fstaccept speak of *)

\* the confidences are quotients <<c, d>>, compared and added as fractions
RatEq(a, b) == a[1] * b[2] = b[1] * a[2]
RatAdd(a, b) == <<a[1] * b[2] + b[1] * a[2], a[2] * b[2]>>

RECURSIVE SumConfidence(_)
SumConfidence(records) ==
    IF records = <<>> THEN <<0, 1>>
    ELSE RatAdd(Head(records).intent.confidence, SumConfidence(Tail(records)))

\* the running call of fstaccept has logged an exception
Failed == \E i \in DOMAIN logged : logged[i] = Sentence_(idx)

Decodes(syms) == ~RunLoop(S2iEntry(args.intent_name), syms, args.replace_tags).raised

\* C1: when anything fails while a sentence is recognized, fstaccept returns the
\* empty list for it.
C1_FailureGivesEmptyList ==
    (mpc = "return" /\ Failed) => intents = <<>>

\* C2: when nothing fails, the confidences of the records fstaccept returns add
\* up to 1 if some enumerated path has literal tokens, and to 0 otherwise.
C2_ConfidenceConservation ==
    (mpc = "return" /\ ~Failed) =>
        RatEq(SumConfidence(intents),
              IF \E i \in DOMAIN out_sentences :
                    Decodes(out_sentences[i]) /\ LiteralsOf(out_sentences[i]) # <<>>
              THEN <<1, 1>> ELSE <<0, 1>>)

\* C4: no exception leaves fstaccept, and main goes through the whole batch: at
\* every turn of its loop the sentences before the current one have their entry
\* in results, whether or not they failed.
C4_NoExceptionEscapes ==
    /\ mpc # "escaped"
    /\ mpc \in {"main", "dumped"} =>
          DOMAIN results = {Sentence_(i) : i \in 1..(idx - 1)}
    /\ mpc = "dumped" => DOMAIN results = {Sentence_(i) : i \in DOMAIN args.sentences}

C4_Witness ==
    /\ mpc = "dumped" /\ Len(args.sentences) = 2
    /\ logged = <<1>> /\ results[1] = <<>> /\ Len(results[2]) = 2

\* C9: the i-th record fstaccept returns has confidence 0 when the i-th path has
\* no literal token, and 1/N otherwise, N being the number of enumerated paths.
C9_PerRecordConfidence ==
    mpc = "return" =>
        \A i \in DOMAIN intents :
            RatEq(intents[i].intent.confidence,
                  IF LiteralsOf(out_sentences[i]) = <<>> THEN <<0, 1>>
                  ELSE <<1, Len(out_sentences)>>)

C9_Witness ==
    /\ mpc = "return" /\ Len(out_sentences) = 2 /\ Len(intents) = 2
    /\ intents[1].intent.confidence = <<1, 2>>
    /\ intents[2].intent.confidence = <<1, 2>>

----------------------------------------------------------------------------
(* the depth-first order of the paths fstprintall emits *)

\* the paths that end at the first accepting state they reach
FirstAcceptingPaths(fst) ==
    {p \in AcceptingPaths(fst) :
        \A i \in 1..(Len(p) - 1) : ~fst.final[fst.arclist[p[i]].nextstate]}

\* p comes before q: where they part, p takes the earlier arc of the state
Before(p, q) ==
    \E k \in 1..Len(p) :
        /\ k <= Len(q)
        /\ \A j \in 1..(k - 1) : p[j] = q[j]
        /\ p[k] < q[k]

RECURSIVE InOrder(_)
InOrder(paths) ==
    IF paths = {} THEN <<>>
    ELSE LET first == CHOOSE p \in paths : \A q \in paths \ {p} : Before(p, q)
         IN  <<first>> \o InOrder(paths \ {first})

\* C11: the list fstaccept returns is fixed by the automaton, the intent name and
\* replace_tags alone: when nothing fails it is the list of the records of the
\* paths in depth-first order, the arcs of each state taken in their native order.
C11_DepthFirstOrder ==
    (mpc = "return" /\ ~Failed) =>
        LET paths == InOrder(FirstAcceptingPaths(out_fst))
        IN  intents = [i \in DOMAIN paths |->
                          Divided(symbols2intent(Projection(out_fst, paths[i], FALSE),
                                                 args.intent_name, args.replace_tags),
                                  Len(paths))]

C11_Witness ==
    /\ mpc = "return" /\ ~Failed /\ Len(intents) = 2
    /\ out_fst.arclist[1].olabel = 2 /\ out_fst.arclist[2].olabel = 1
    /\ intents[1].text = <<>> /\ intents[2].text = Boston

\* C12: on an automaton without cycles, whichever state is the start state
\* and however the states are numbered, fstprintall comes to its end and returns
\* its list: the recursion overflows on automata with a cycle only.
C12_TerminatesOnAcyclic ==
    epc = "raised" => ~Acyclic(in_fst)

\* C13: when nothing fails, fstaccept returns one record for each sentence
\* fstprintall gave, in the same order, each confidence a quotient by the number
\* of sentences, never by zero; when there is no accepting path and the
\* enumeration came to its end, the loop has nothing to decode, nothing is caught
\* and the empty list is returned.
C13_OneRecordPerPath ==
    /\ (mpc = "return" /\ ~Failed) =>
          /\ Len(intents) = Len(out_sentences)
          /\ \A i \in DOMAIN intents :
                /\ intents[i].tokens = LiteralsOf(out_sentences[i])
                /\ Len(intents[i].entities) = Len(EndsOf(out_sentences[i]))
                /\ intents[i].intent.confidence[2] = Len(out_sentences)
                /\ intents[i].intent.confidence[2] # 0
    /\ (mpc = "for" /\ AcceptingPaths(out_fst) = {}) =>
          out_sentences = <<>> /\ intents = <<>> /\ ~Failed
    /\ (mpc = "return" /\ ~Failed /\ AcceptingPaths(out_fst) = {}) => intents = <<>>

\* no accepting path in an automaton that has arcs: the empty list, nothing caught
C13_Witness ==
    /\ mpc = "return" /\ ~Failed
    /\ Len(out_fst.arclist) = 2 /\ AcceptingPaths(out_fst) = {}
    /\ out_sentences = <<>> /\ intents = <<>>

\* C14: for n tokens linear_fst gives an automaton with the states 0..n, one arc
\* from i to i + 1 labelled with token i for each i below n, no other arc, and
\* n as its only final state.
C14_LinearShape ==
    /\ lpc # "raised"
    /\ lpc = "returned" =>
          /\ compiled.states = 0..Len(elements)
          /\ compiled.arcs = {[src |-> k - 1, nextstate |-> k, label |-> elements[k]] :
                                 k \in DOMAIN elements}
          /\ compiled.final = {Len(elements)}

\* the records of the sentences up to the first one symbols2intent raises on
RECURSIVE DecodedUntilRaise(_, _, _, _)
DecodedUntilRaise(sents, k, name, rt) ==
    IF k > Len(sents) \/ RunLoop(S2iEntry(name), sents[k], rt).raised THEN <<>>
    ELSE <<Divided(symbols2intent(sents[k], name, rt), Len(sents))>>
             \o DecodedUntilRaise(sents, k + 1, name, rt)

\* C15: what fstaccept returns for a sentence is fixed by the automaton of that
\* sentence and the options: the sentences recognized before it, whether they
\* failed or not, leave no trace in it.
C15_CrossSentenceIsolation ==
    /\ mpc = "for" => out_sentences = fstprintall(out_fst, FALSE).sentences
    /\ mpc = "return" =>
          intents = DecodedUntilRaise(out_sentences, 1, args.intent_name, args.replace_tags)

\* the second sentence returns its one record after the first one failed
\* with a record already in its list
C15_Witness ==
    /\ mpc = "return" /\ idx = 2 /\ ~Failed
    /\ logged = <<Sentence_(1)>> /\ Len(results[Sentence_(1)]) = 1
    /\ Len(intents) = 1 /\ intents[1].text = Boston

\* the positions b < e of a __begin__ marker and the __end__ marker of the same
\* name that closes it, no other marker of the two kinds between them
TagSpans ==
    {be \in (DOMAIN symbols) \X (DOMAIN symbols) :
        /\ be[1] < be[2]
        /\ IsBegin(symbols[be[1]]) /\ IsEnd(symbols[be[2]])
        /\ Slice(symbols[be[1]], 9) = Slice(symbols[be[2]], 7)
        /\ \A j \in (be[1] + 1)..(be[2] - 1) : ~IsBegin(symbols[j]) /\ ~IsEnd(symbols[j])}

\* the value of the entity of a span when the replacement is not applied is
\* the space-joined literal symbols of the span
SpanValueIsItsLiterals(be) ==
    LET k == Len(EndsOf(SubSeq(symbols, 1, be[2])))
    IN  (~(replace_tags /\ Contains(Slice(symbols[be[1]], 9), COLON))) =>
            /\ k \in DOMAIN Entities
            /\ Entities[k].value = Join(LiteralsOf(SubSeq(symbols, be[1] + 1, be[2] - 1)))

\* C16: every literal symbol read while a tag is open, whatever the name of the
\* tag, the empty name included, goes to the tag buffer and to the output
\* buffer: the value of the entity, when the replacement is not applied, is the
\* space-joined literals of the span, and text and tokens hold every literal.
C16_LiteralsInTagBuffer ==
    /\ dpc \in {"loop", "returned"} => \A be \in TagSpans : SpanValueIsItsLiterals(be)
    /\ dpc = "returned" =>
          dresult.tokens = LiteralsOf(symbols) /\ dresult.text = Join(LiteralsOf(symbols))

\* the states a path from the start state leads to, the start state among them
Reachable(fst) ==
    {fst.start} \cup {fst.arclist[p[Len(p)]].nextstate :
                         p \in {q \in ArcChains(fst) : fst.arclist[q[1]].src = fst.start}}

\* a cycle through non-accepting states only that can be reached from the start state
NonAcceptingCycle(fst) ==
    \E c \in ArcChains(fst) :
        /\ fst.arclist[c[Len(c)]].nextstate = fst.arclist[c[1]].src
        /\ fst.arclist[c[1]].src \in Reachable(fst)
        /\ \A i \in DOMAIN c : ~fst.final[fst.arclist[c[i]].src]

C18_PathBuffer ==
    epc = "run" =>
        /\ Len(path) = IF Top.at = "for" THEN Len(stack) - 1 ELSE Len(stack)
        /\ Top.at = "for" =>
              /\ \A k \in 1..(Len(path) - 1) : path[k].nextstate = path[k + 1].src
              /\ IF path = <<>> THEN Top.state = in_fst.start
                 ELSE path[1].src = in_fst.start /\ path[Len(path)].nextstate = Top.state

\* C19: the recursive call of fstprintall for a non-accepting destination goes
\* through the arcs of that destination, state 0 included and whichever state is
\* the start state.
C19_RecursesIntoDestination ==
    epc = "run" =>
        \A k \in 2..Len(stack) : stack[k].state = path[k - 1].nextstate

\* the symbols read before the last one
Earlier == SubSeq(symbols, 1, Len(symbols) - 1)

\* C20: symbols2intent raises on nothing but an __end__ marker whose name is
\* not the open tag.  A __begin__ marker read while a tag is open raises
\* nothing and emits no entity: it replaces the tag and empties the tag buffer.
\* A tag still open at the end raises nothing and emits no entity: the record is
\* returned with the tokens of the tag in text and tokens.
C20_OnlyEndMismatchRaises ==
    /\ dpc = "raised" =>
          /\ IsEnd(symbols[Len(symbols)])
          /\ Slice(symbols[Len(symbols)], 7) # OpenTag(Earlier)
    /\ dpc \in {"loop", "returned"} => Len(Entities) = Len(EndsOf(symbols))
    /\ (dpc = "loop" /\ symbols # <<>> /\ IsBegin(symbols[Len(symbols)])) =>
          /\ s2i.tag = Slice(symbols[Len(symbols)], 9)
          /\ s2i.tag_symbols = <<>>
          /\ s2i.out_symbols = LiteralsOf(symbols)
    /\ (dpc = "returned" /\ OpenTag(symbols) # None) =>
          /\ Len(dresult.entities) = Len(EndsOf(symbols))
          /\ dresult.tokens = LiteralsOf(symbols)
          /\ dresult.text = Join(LiteralsOf(symbols))

\* a second __begin__ inside an open tag, and the tag left open at the end
C20_Witness ==
    /\ dpc = "returned"
    /\ symbols = <<BeginRoom, Boston, BeginCity, Dunder>>
    /\ dresult.entities = <<>>
    /\ dresult.tokens = <<Boston, Dunder>>

=============================================================================
